---- MODULE Spec2Model ----
(***************************************************************************)
(* Model of the DEGL optimizer (src/DEGL/DEGL.py, class Degl) and of the   *)
(* two nesting controllers (run_PSO in src/New_Stock/main_PSOx4.py and     *)
(* run_pattern_search in src/Optimization algorithms/                      *)
(* main_pattern_search.py).                                                *)
(*                                                                         *)
(* Positions and fitness values are integers: the scale factors a, b and   *)
(* the blend weights w_min, w_max are constructor arguments and are drawn  *)
(* from integer values, so every arithmetic step of the source is exact.   *)
(* Polygons are represented by their area and by the set of parts cut out  *)
(* of them; areas are integer multiples of a unit far above the 1e-4       *)
(* validation tolerance.                                                   *)
(***************************************************************************)
EXTENDS Integers, Sequences, FiniteSets, TLC

VARIABLES
    \* ---- Degl: constructor arguments kept on the object
    nVars, D, MaxIterationsArg, MaxIterations, MaxStallIterations,
    FunctionTolerance, OutputFcn, Order, LowerBounds, UpperBounds,
    a, b, w_min, w_max, ObjectiveFcn, Stock,
    \* ---- Degl: the placement kept for the best position (self.newOrder,
    \* self.remaining)
    self_newOrder, self_remaining,
    \* ---- Degl: population state
    z, CurrentGenFitness, PreviousBestPosition, PreviousBestFitness,
    GlobalBestFitness, GlobalBestPosition, Iteration, StallCounter,
    GlobalBestSoFarFitnesses, StopReason,
    \* ---- Degl.optimize: locals and position in the loop
    doStop, w, i, y, u, j_rand, stream, pc,
    \* ---- history of the run (not program state)
    fromY, observed, initialFitness,
    \* ---- nesting controllers: which one runs, its inputs and its locals
    controller, shapeOf, shapesTotal, orders, remaining, resList,
    resListPerStock, nonFitted, count, shapesF, flag, currentOrder, shapeIdx,
    scan, stockIdx, newOrder, at,
    \* ---- the residual areas measured by the last trial, in units of 1e-4
    difunion, difArea,
    \* ---- history of the nesting run: the orders as handed to it
    initialOrders,
    \* ---- Degl.__init__ followed statement by statement: the arguments of
    \* the call, the attributes assigned so far, the position in the body
    args, self, ctor,
    \* ---- one call of a controller's ObjectiveFcn: its arguments and the
    \* value it returned, the exception it raised
    call, result, raised,
    \* ---- the indices p, q, r1, r2 taken for one candidate from one draw
    picked

cfgVars == <<nVars, D, MaxIterationsArg, MaxIterations, MaxStallIterations,
             FunctionTolerance, OutputFcn, Order, LowerBounds, UpperBounds,
             a, b, w_min, w_max, ObjectiveFcn, Stock>>
popVars == <<z, CurrentGenFitness, PreviousBestPosition, PreviousBestFitness,
             GlobalBestFitness, GlobalBestPosition, StallCounter,
             GlobalBestSoFarFitnesses>>
rowVars == <<y, j_rand, fromY>>
rngVars == <<stream>>
dataVars == <<self_newOrder, self_remaining>>
deglVars == <<cfgVars, popVars, rowVars, rngVars, dataVars, Iteration, StopReason, doStop, w, i,
              u, pc, observed, initialFitness>>

nestVars == <<difunion, difArea, initialOrders, controller, shapeOf, shapesTotal, orders, remaining, resList,
              resListPerStock, nonFitted, count, shapesF, flag, currentOrder,
              shapeIdx, scan, stockIdx, newOrder, at>>

ctorVars == <<args, self, ctor>>

objVars == <<call, result, raised>>

pickVars == <<picked>>

vars == <<deglVars, nestVars, ctorVars, objVars, pickVars>>

----------------------------------------------------------------------------
(* Bounds of the model *)

\* largest MaxIterations argument handed to the constructor
MaxIterationsBound == 4
\* candidates 0..PopSeedWidth-1 of the initial population are sampled freely
PopSeedWidth == 1

\* number of parts in the orders of a nesting run
MaxParts == 3

\* numbers of variables for which the index draws are followed in full
MaxNVars == 2

\* values of nVars handed to the constructor
NVarsValues == {1}
\* values of MaxStallIterations handed to the constructor
MaxStallValues == {1, 2}
\* (LowerBounds, UpperBounds) scalars handed to the constructor
BoundsValues == {<<0, 4>>}
\* FunctionTolerance values <<numerator, denominator>>: the default 1e-6
ToleranceValues == {<<1, 1000000>>}
\* integer values of a, b
ScaleValues == {1}
\* w_min, and the integer slope (w_max - w_min) / (MaxIterations - 1)
WeightMinValues == {0}
WeightSlopes == {1}
\* objective functions handed to the constructor
ObjectiveFcns == {"distance", "flat"}
\* The random source.  One generation draws from one stream; a stream fixes,
\* for every candidate c, the three positions np.random.choice takes in the
\* neighbors array (local) and the three population indices it takes, as
\* offsets from c (global).
DrawStreams == { [local |-> <<0, 1, 2>>, global |-> <<1, 2, 3>>],
                 [local |-> <<2, 0, 1>>, global |-> <<0, 9, 5>>] }

----------------------------------------------------------------------------
(* Helpers *)

Abs(x) == IF x < 0 THEN -x ELSE x

Max2(x, yy) == IF x >= yy THEN x ELSE yy

Min2(x, yy) == IF x <= yy THEN x ELSE yy

SetMin(S) == CHOOSE m \in S : \A e \in S : m <= e

RECURSIVE SumTo(_, _)
SumTo(f, n) == IF n < 0 THEN 0 ELSE f[n] + SumTo(f, n - 1)

\* numpy argmin over an array indexed 0..n-1: index of the first minimum
ArgMin(f, n) == CHOOSE m \in 0..(n - 1) :
                   /\ \A e \in 0..(n - 1) : f[m] <= f[e]
                   /\ \A e \in 0..(m - 1) : f[e] > f[m]

\* the value np.nan that fills the unused slots of GlobalBestSoFarFitnesses
NaN == -1000000

\* the three stop reasons
ReasonOutputFcn == "OutputFcn requested to stop."

ReasonMaxIterations == "MaxIterations reached."

ReasonStall == "Population did not improve significantly the last MaxStallIterations."

NoReason == "unset"

StopReasons == {ReasonOutputFcn, ReasonMaxIterations, ReasonStall}

\* the objective functions: cost of a candidate vector.  "flat" is constant,
\* "distance" is the distance to the point one unit inside the upper bounds
Objective(fcn, vec, n, ub) ==
    IF fcn = "flat" THEN 0
    ELSE SumTo([c \in 0..(n - 1) |-> Abs(ub[c] - 1 - vec[c])], n - 1)

\* fitness of a population (the serial branch of __evaluateDEz / __evaluateDEu)
Evaluate(pop) ==
    [c \in 0..(D - 1) |-> Objective(ObjectiveFcn, pop[c], nVars, UpperBounds)]

----------------------------------------------------------------------------
(* The optimizer and the controllers are separate programs: while one runs, *)
(* the state of the other does not exist and is held at a fixed value.      *)

\* an optional argument left at None, or given with a value
NoneArg == [given |-> FALSE, value |-> 0]
Given(v) == [given |-> TRUE, value |-> v]

NestIdle ==
    /\ controller = "none"
    /\ shapeOf = <<>>
    /\ shapesTotal = 0
    /\ initialOrders = <<>>
    /\ difunion = 0
    /\ difArea = 0
    /\ orders = <<>>
    /\ remaining = <<>>
    /\ resList = <<>>
    /\ resListPerStock = <<>>
    /\ nonFitted = <<>>
    /\ count = 0
    /\ shapesF = 0
    /\ flag = FALSE
    /\ currentOrder = <<>>
    /\ shapeIdx = <<>>
    /\ scan = 0
    /\ stockIdx = 0
    /\ newOrder = <<>>
    /\ at = "idle"

NoPick == [p |-> 0, q |-> 0, r1 |-> 0, r2 |-> 0]

ObjIdle ==
    /\ call = <<>>
    /\ result = NoneArg
    /\ raised = "none"
    /\ picked = NoPick

CtorIdle ==
    /\ args = <<>>
    /\ self = <<>>
    /\ ctor = "idle"

DeglRestIdle ==
    /\ MaxIterationsArg = 0
    /\ MaxIterations = 0
    /\ MaxStallIterations = 0
    /\ FunctionTolerance = <<0, 1>>
    /\ OutputFcn = FALSE
    /\ Order = FALSE
    /\ LowerBounds = <<>>
    /\ UpperBounds = <<>>
    /\ a = 0
    /\ b = 0
    /\ w_min = 0
    /\ w_max = 0
    /\ ObjectiveFcn = "none"
    /\ Stock = NoneArg
    /\ self_newOrder = NoneArg
    /\ self_remaining = NoneArg
    /\ z = <<>>
    /\ CurrentGenFitness = <<>>
    /\ PreviousBestPosition = <<>>
    /\ PreviousBestFitness = <<>>
    /\ GlobalBestFitness = 0
    /\ GlobalBestPosition = <<>>
    /\ Iteration = 0
    /\ StallCounter = 0
    /\ GlobalBestSoFarFitnesses = <<>>
    /\ StopReason = NoReason
    /\ doStop = FALSE
    /\ w = 0
    /\ y = <<>>
    /\ u = <<>>
    /\ j_rand = 0
    /\ fromY = {}
    /\ observed = {}
    /\ initialFitness = <<>>

DeglIdle ==
    /\ nVars = 0
    /\ D = 0
    /\ i = 0
    /\ stream = <<>>
    /\ pc = "idle"
    /\ DeglRestIdle

----------------------------------------------------------------------------
(* Degl.__init__ *)

DefaultD(n) == Min2(200, 10 * n)

\* the values lb + rand * (ub - lb), rand in [0, 1), that are followed: all
\* of a narrow range, the ends and the middle of a wide one
SeedValues(lb, ub) ==
    IF ub = lb THEN {lb}
    ELSE IF ub - lb <= 4 THEN lb..(ub - 1)
    ELSE {lb, (lb + ub) \div 2, ub - 1}

\* lines 190-194: the populations lbMatrix + rand(D, nVars) * bRangeMatrix
SamplePopulations(n, d, lbs, ubs) ==
    LET values == UNION {SeedValues(lbs[v], ubs[v]) : v \in 0..(n - 1)}
        rows == {r \in [0..(n - 1) -> values] :
                   \A v \in 0..(n - 1) : r[v] \in SeedValues(lbs[v], ubs[v])}
        rest == [v \in 0..(n - 1) |->
                   IF lbs[v] + 1 < ubs[v] THEN lbs[v] + 1 ELSE lbs[v]]
    IN  { [c \in 0..(d - 1) |-> IF c < PopSeedWidth THEN seed[c] ELSE rest]
          : seed \in [0..(PopSeedWidth - 1) -> rows] }

InitialPopulations(n, d, lb, ub) ==
    SamplePopulations(n, d, [v \in 0..(n - 1) |-> lb], [v \in 0..(n - 1) |-> ub])

\* the Stock argument: None, or a polygon, by its area
StockValues == {NoneArg, Given(4)}

InitDegl ==
    /\ NestIdle
    /\ CtorIdle
    /\ ObjIdle
    /\ nVars \in NVarsValues
    /\ D = DefaultD(nVars)
    /\ MaxIterationsArg \in 0..MaxIterationsBound
    /\ MaxIterations = Max2(1, MaxIterationsArg)
    /\ MaxStallIterations \in MaxStallValues
    /\ FunctionTolerance \in ToleranceValues
    \* whether an output function, an Order list were handed over (else None);
    \* with nVars below 3 the list holds no part
    /\ OutputFcn \in BOOLEAN
    /\ Order \in BOOLEAN
    /\ Stock \in StockValues
    /\ self_newOrder = NoneArg
    /\ self_remaining = NoneArg
    /\ \E bd \in BoundsValues :
         /\ LowerBounds = [v \in 0..(nVars - 1) |-> bd[1]]
         /\ UpperBounds = [v \in 0..(nVars - 1) |-> bd[2]]
         /\ z \in InitialPopulations(nVars, D, bd[1], bd[2])
    /\ a \in ScaleValues
    /\ b \in ScaleValues
    /\ w_min \in WeightMinValues
    /\ \E slope \in WeightSlopes : w_max = w_min + slope * (MaxIterations - 1)
    /\ ObjectiveFcn \in ObjectiveFcns
    /\ CurrentGenFitness = Evaluate(z)
    /\ PreviousBestPosition = z
    /\ PreviousBestFitness = CurrentGenFitness
    /\ GlobalBestFitness = CurrentGenFitness[ArgMin(CurrentGenFitness, D)]
    /\ GlobalBestPosition = PreviousBestPosition[ArgMin(CurrentGenFitness, D)]
    /\ Iteration = -1
    /\ StallCounter = 0
    /\ GlobalBestSoFarFitnesses =
         [s \in 0..MaxIterations |-> IF s = 0 THEN GlobalBestFitness ELSE NaN]
    /\ StopReason = NoReason
    /\ doStop = FALSE
    /\ w = 0
    /\ i = 0
    /\ y = [v \in 0..(nVars - 1) |-> 0]
    /\ u = [c \in 0..(D - 1) |-> [v \in 0..(nVars - 1) |-> 0]]
    /\ j_rand = 0
    /\ stream = CHOOSE s \in DrawStreams : TRUE
    /\ pc = "loop"
    /\ fromY = {}
    /\ observed = {CurrentGenFitness[c] : c \in 0..(D - 1)}
    /\ initialFitness = CurrentGenFitness

----------------------------------------------------------------------------
(* Degl.__init__, statement by statement *)

\* the float inf; -Infinity is -inf
Infinity == 2000000

\* np.isfinite
IsFinite(x) == x # Infinity /\ x # -Infinity

\* arguments handed to the constructor
CtorNVars == {1, 2}
DArgs == {NoneArg} \cup {Given(v) : v \in 0..3}
MaxIterationsArgs == {NoneArg, Given(0), Given(2)}
\* FunctionTolerance in units of the default 1e-6
ToleranceArgs == {-1, 0, 1}
LowerValues == {0, 2, Infinity}
UpperValues == {1, 3, Infinity}
BoundLengths == {1, 2}

\* a bounds argument: None, a scalar, or a vector (indexed from 0)
BoundArgs(values) ==
    {[kind |-> "None", value |-> <<>>]}
    \cup {[kind |-> "scalar", value |-> <<x>>] : x \in values}
    \cup {[kind |-> "vector", value |-> vec] :
            vec \in UNION {[0..(n - 1) -> values] : n \in BoundLengths}}

\* the call Degl(ObjectiveFcn, nVars, ...)
InitCtor ==
    /\ NestIdle
    /\ DeglIdle
    /\ ObjIdle
    /\ args \in [nVars : CtorNVars, D : DArgs, FunctionTolerance : ToleranceArgs,
                 MaxIterations : MaxIterationsArgs,
                 LowerBounds : BoundArgs(LowerValues),
                 UpperBounds : BoundArgs(UpperValues)]
    /\ self = <<>>
    /\ ctor = "store"

\* the ways the constructor ends
CtorEnded == {"constructed", "AssertionError", "AttributeError"}

\* self.name = value
SetAttr(obj, name, value) == (name :> value) @@ obj

\* lines 122-132: the plain stores
StoreArguments ==
    /\ UNCHANGED <<deglVars, nestVars, objVars, pickVars>>
    /\ ctor = "store"
    /\ self' = [ObjectiveFcn |-> "distance", nVars |-> args.nVars, Nf |-> 1,
                a |-> 1, b |-> 1, w_min |-> 0, w_max |-> 1, Order |-> "None",
                Stock |-> "None", remaining |-> "None", newOrder |-> "None"]
    /\ ctor' = "D"
    /\ UNCHANGED args

\* lines 134-140: the population size
SetD ==
    /\ UNCHANGED <<deglVars, nestVars, objVars, pickVars>>
    /\ ctor = "D"
    /\ IF ~args.D.given
       THEN /\ self' = SetAttr(self, "D", DefaultD(args.nVars))
            /\ ctor' = "FunctionTolerance"
       ELSE IF ~(args.D.value > 1)
       THEN /\ ctor' = "AssertionError"
            /\ UNCHANGED self
       ELSE IF "D" \notin DOMAIN self
       THEN \* max(2, int(round(self.D))) reads an attribute that is not set
            /\ ctor' = "AttributeError"
            /\ UNCHANGED self
       ELSE /\ self' = SetAttr(self, "D", Max2(2, self.D))
            /\ ctor' = "FunctionTolerance"
    /\ UNCHANGED args

\* lines 142-144
SetFunctionTolerance ==
    /\ UNCHANGED <<deglVars, nestVars, objVars, pickVars>>
    /\ ctor = "FunctionTolerance"
    /\ IF args.FunctionTolerance >= 0
       THEN /\ self' = SetAttr(self, "FunctionTolerance", args.FunctionTolerance)
            /\ ctor' = "MaxIterations"
       ELSE /\ ctor' = "AssertionError"
            /\ UNCHANGED self
    /\ UNCHANGED args

\* lines 146-158: MaxIterations, MaxStallIterations (default 20), OutputFcn
\* and UseParallel (defaults)
SetMaxIterations ==
    /\ UNCHANGED <<deglVars, nestVars, objVars, pickVars>>
    /\ ctor = "MaxIterations"
    /\ LET mi == IF args.MaxIterations.given
                 THEN Max2(1, args.MaxIterations.value)
                 ELSE 100 * args.nVars
       IN  self' = SetAttr(SetAttr(SetAttr(SetAttr(self,
                      "MaxIterations", mi),
                      "MaxStallIterations", Max2(1, 20)),
                      "OutputFcn", "None"),
                      "UseParallel", FALSE)
    /\ ctor' = "LowerBounds"
    /\ UNCHANGED args

\* a bounds argument as an array: None gives the default, a scalar is
\* repeated nVars times, a vector is taken as it is
BoundsArray(arg, n, default) ==
    IF arg.kind = "None" THEN [v \in 0..(n - 1) |-> default]
    ELSE IF arg.kind = "scalar" THEN [v \in 0..(n - 1) |-> arg.value[1]]
    ELSE arg.value

\* array[~np.isfinite(array)] = default
FiniteOr(array, default) ==
    [v \in DOMAIN array |-> IF IsFinite(array[v]) THEN array[v] ELSE default]

\* lines 160-169
SetLowerBounds ==
    /\ UNCHANGED <<deglVars, nestVars, objVars, pickVars>>
    /\ ctor = "LowerBounds"
    /\ LET lbs == FiniteOr(BoundsArray(args.LowerBounds, args.nVars, -1000), -1000)
       IN  /\ self' = SetAttr(self, "LowerBounds", lbs)
           /\ ctor' = IF Cardinality(DOMAIN lbs) = args.nVars
                      THEN "UpperBounds" ELSE "AssertionError"
    /\ UNCHANGED args

\* lines 170-179
SetUpperBounds ==
    /\ UNCHANGED <<deglVars, nestVars, objVars, pickVars>>
    /\ ctor = "UpperBounds"
    /\ LET ubs == FiniteOr(BoundsArray(args.UpperBounds, args.nVars, 1000), 1000)
       IN  /\ self' = SetAttr(self, "UpperBounds", ubs)
           /\ ctor' = IF Cardinality(DOMAIN ubs) = args.nVars
                      THEN "compare" ELSE "AssertionError"
    /\ UNCHANGED args

\* lines 181-188: lower bounds against upper bounds
CompareBounds ==
    /\ UNCHANGED <<deglVars, nestVars, objVars, pickVars>>
    /\ ctor = "compare"
    /\ ctor' = IF \A v \in 0..(args.nVars - 1) :
                     self.LowerBounds[v] <= self.UpperBounds[v]
               THEN "sample" ELSE "AssertionError"
    /\ UNCHANGED <<args, self>>

\* lines 190-194: the initial population
SampleInitial ==
    /\ UNCHANGED <<deglVars, nestVars, objVars, pickVars>>
    /\ ctor = "sample"
    /\ \E pop \in SamplePopulations(self.nVars, self.D, self.LowerBounds,
                                     self.UpperBounds) :
         self' = SetAttr(self, "z", pop)
    /\ ctor' = "evaluate"
    /\ UNCHANGED args

\* lines 196-221: initial fitness, personal and global bests, counters and
\* the best-so-far history
EvaluateInitial ==
    /\ UNCHANGED <<deglVars, nestVars, objVars, pickVars>>
    /\ ctor = "evaluate"
    /\ LET fit == [c \in 0..(self.D - 1) |->
                     Objective(self.ObjectiveFcn, self.z[c], self.nVars,
                               self.UpperBounds)]
           bInd == ArgMin(fit, self.D)
       IN  self' = [CurrentGenFitness |-> fit,
                    PreviousBestPosition |-> self.z,
                    PreviousBestFitness |-> fit,
                    GlobalBestFitness |-> fit[bInd],
                    GlobalBestPosition |-> self.z[bInd],
                    Iteration |-> -1,
                    StallCounter |-> 0,
                    GlobalBestSoFarFitnesses |->
                        [t \in 0..self.MaxIterations |->
                            IF t = 0 THEN fit[bInd] ELSE NaN]] @@ self
    /\ ctor' = "constructed"
    /\ UNCHANGED args

NextCtor ==
    \/ StoreArguments
    \/ SetD
    \/ SetFunctionTolerance
    \/ SetMaxIterations
    \/ SetLowerBounds
    \/ SetUpperBounds
    \/ CompareBounds
    \/ SampleInitial
    \/ EvaluateInitial

SpecCtor == InitCtor /\ [][NextCtor]_vars

----------------------------------------------------------------------------
(* Degl.optimize *)

\* Nf = 0.1 (the default): k = round(D * Nf)
RingRadius(d) == d \div 10

k == RingRadius(D)

AdaptiveNeighborhoodSize == 3

\* crossover probability Cr = 0.8, in tenths
CrTenths == 8

\* one entry of the neighbors array after the two wrap-around corrections
WrapNeighbor(n, d) ==
    LET low == IF n < 0 THEN n + (n + d) ELSE n
    IN  IF low > d - 1 THEN low - d ELSE low

\* the neighbors array of candidate c, indexed 0..2k
Neighbors(c) == [j \in 0..(2 * k) |-> WrapNeighbor(c - k + j, D)]

\* np.random.choice(neighbors, size=3, replace=False) under stream s: three
\* entries of the neighbors array taken at pairwise different positions
ChoiceLocal(s, neighbors) ==
    <<neighbors[s.local[1]], neighbors[s.local[2]], neighbors[s.local[3]]>>

\* np.random.choice(D, 3, replace=False) for candidate c under stream s: three
\* pairwise different population indices
ChoiceGlobal(s, c) ==
    <<(c + s.global[1]) % D, (c + s.global[2]) % D, (c + s.global[3]) % D>>

\* NotItself with the replacement left out
NotItselfOmitted(idx, c) == idx

\* idx[idx == c] = idx[2]
NotItself(idx, c) == [t \in 1..3 |-> IF idx[t] = c THEN idx[3] ELSE idx[t]]

\* zi + a (zbest - zi) + b (zp - zq), eq. (3) and (4)
Mutate(zi, zbest, zp, zq) ==
    [v \in 0..(nVars - 1) |-> zi[v] + a * (zbest[v] - zi[v]) + b * (zp[v] - zq[v])]

\* random.randrange(lo, hi)
RandRange(lo, hi) == lo..(hi - 1)

\* randint(lo, hi)
RandInt(lo, hi) == lo..hi

\* Saturate with the upper-bound correction left out
SaturateLowerOnly(vec) ==
    [v \in 0..(nVars - 1) |->
       IF vec[v] < LowerBounds[v] THEN LowerBounds[v] ELSE vec[v]]

\* saturation of one trial vector into [LowerBounds, UpperBounds]
Saturate(vec) ==
    LET low == [v \in 0..(nVars - 1) |->
                  IF vec[v] < LowerBounds[v] THEN LowerBounds[v] ELSE vec[v]]
    IN  [v \in 0..(nVars - 1) |->
           IF low[v] > UpperBounds[v] THEN UpperBounds[v] ELSE low[v]]

\* LoopGuard of a loop that ignores doStop
LoopGuardAlways == TRUE

\* line 266: while not doStop
LoopGuard == ~doStop

\* lines 266-270: self.Iteration += 1; w = ...
StartGeneration ==
    /\ UNCHANGED <<nestVars, ctorVars, objVars, pickVars>>
    /\ UNCHANGED dataVars
    /\ pc = "loop"
    /\ LoopGuard
    /\ Iteration' = Iteration + 1
    /\ IF MaxIterations - 1 = 0
       THEN /\ pc' = "fault"
            /\ UNCHANGED <<w, i>>
       ELSE /\ w' = w_min + ((w_max - w_min) * (Iteration' - 1)) \div (MaxIterations - 1)
            /\ i' = 0
            /\ pc' = "mutate"
    /\ stream' \in DrawStreams
    /\ UNCHANGED <<cfgVars, popVars, rowVars, StopReason, doStop, u,
                   observed, initialFitness>>

\* lines 276-293: neighbor ring, p, q, best neighbor and the local mutation
\* row L[c] for the three neighbors drawn
LocalMutation(c, drawn) ==
    LET neighbors == Neighbors(c)
        neighbors_idx == NotItself(drawn, c)
        p == neighbors_idx[1]
        q == neighbors_idx[2]
        bInd == ArgMin([j \in 0..(2 * k) |-> PreviousBestFitness[neighbors[j]]],
                       2 * k + 1)
        bestNeighbor == neighbors[bInd]
    IN  Mutate(z[c], z[bestNeighbor], z[p], z[q])

\* lines 295-308: r1, r2, best of the sample and the global mutation row g[c]
\* for the three population indices drawn
\* line 304: self.PreviousBestFitness[idx].argmin(), a position in idx
GlobalBInd(c, drawn) ==
    LET idx == NotItself(drawn, c)
    IN  ArgMin([t \in 0..2 |-> PreviousBestFitness[idx[t + 1]]], 3)

GlobalMutation(c, drawn) ==
    LET idx == NotItself(drawn, c)
        r1 == idx[1]
        r2 == idx[2]
        bInd == GlobalBInd(c, drawn)
    IN  Mutate(z[c], z[bInd], z[r1], z[r2])

\* line 311: y = w g + (1 - w) L
Blend(grow, lrow) == [v \in 0..(nVars - 1) |-> w * grow[v] + (1 - w) * lrow[v]]

\* lines 276-311 for candidate i: both mutations and the blended row y[i]
Mutation ==
    /\ UNCHANGED <<nestVars, ctorVars, objVars, pickVars>>
    /\ UNCHANGED dataVars
    /\ pc = "mutate"
    /\ 2 * k + 1 >= AdaptiveNeighborhoodSize
    /\ y' = Blend(GlobalMutation(i, ChoiceGlobal(stream, i)),
                  LocalMutation(i, ChoiceLocal(stream, Neighbors(i))))
    /\ pc' = "cross"
    /\ UNCHANGED <<cfgVars, popVars, rngVars, j_rand, fromY, Iteration, StopReason,
                   doStop, w, i, u, observed, initialFitness>>

\* lines 313-317: crossover of candidate i
Crossover ==
    /\ UNCHANGED <<nestVars, ctorVars, objVars, pickVars>>
    /\ UNCHANGED dataVars
    /\ pc = "cross"
    /\ \E jr \in RandInt(0, D) :
       \E draw \in [0..(nVars - 1) -> RandRange(0, 1)] :
         /\ j_rand' = jr
         /\ fromY' = {c \in 0..(nVars - 1) : 10 * draw[c] < CrTenths \/ k = jr}
         /\ u' = [u EXCEPT ![i] = [c \in 0..(nVars - 1) |->
                                     IF c \in fromY' THEN y[c] ELSE z[i][c]]]
    /\ pc' = "clamp"
    /\ UNCHANGED <<cfgVars, popVars, rngVars, y, Iteration, StopReason,
                   doStop, w, i, observed, initialFitness>>

\* lines 319-325: saturation of candidate i, then the next candidate
Clamp ==
    /\ UNCHANGED <<nestVars, ctorVars, objVars, pickVars>>
    /\ UNCHANGED dataVars
    /\ pc = "clamp"
    /\ u' = [u EXCEPT ![i] = Saturate(u[i])]
    /\ i' = i + 1
    /\ pc' = IF i + 1 = D THEN "eval" ELSE "mutate"
    \* j_rand is not read again before the next crossover draws it anew
    /\ j_rand' = 0
    /\ UNCHANGED <<cfgVars, popVars, rngVars, y, fromY, Iteration, StopReason,
                   doStop, w, observed, initialFitness>>

\* StallStop without the branch for a zero past value: 0/0 is no progress
\* measure and the test fails
StallStopNoZeroGuard(hist, t) ==
    /\ t > MaxStallIterations
    /\ LET minBestFitness == hist[t + 1]
           maxPastBestFit == hist[t + 1 - MaxStallIterations]
       IN  /\ maxPastBestFit # 0
           /\ Abs(minBestFitness - maxPastBestFit) * FunctionTolerance[2]
                 <= FunctionTolerance[1] * Abs(maxPastBestFit)

\* lines 365-380: the insignificant-improvement test on the history hist
\* (already holding the slot of generation t)
StallStop(hist, t) ==
    /\ t > MaxStallIterations
    /\ LET minBestFitness == hist[t + 1]
           maxPastBestFit == hist[t + 1 - MaxStallIterations]
       IN  IF maxPastBestFit = 0 /\ minBestFitness < maxPastBestFit THEN FALSE
           ELSE IF maxPastBestFit = 0 /\ minBestFitness = 0 THEN TRUE
           ELSE IF maxPastBestFit = 0 THEN FALSE
           ELSE Abs(minBestFitness - maxPastBestFit) * FunctionTolerance[2]
                    <= FunctionTolerance[1] * Abs(maxPastBestFit)

\* lines 353-380: the stop reason set in generation t, NoReason when the loop
\* goes on; requested is what the output function returned
StopTest(requested, hist, t) ==
    IF requested THEN ReasonOutputFcn
    ELSE IF t >= MaxIterations - 1 THEN ReasonMaxIterations
    ELSE IF StallStop(hist, t) THEN ReasonStall
    ELSE NoReason

\* GenProgressed that also takes a trial as good as the personal best
GenProgressedOrEqual(fit) == {c \in 0..(D - 1) : fit[c] <= PreviousBestFitness[c]}

\* line 330: the candidates whose trial is better than their personal best
GenProgressed(fit) == {c \in 0..(D - 1) : fit[c] < PreviousBestFitness[c]}

\* NewBestInd that takes the first trial instead of the best one
NewBestIndFirst(fit) == 0

\* line 336: index of the best trial of the generation
NewBestInd(fit) == ArgMin(fit, D)

\* NewGlobalBest that overwrites the global best with the generation's best
NewGlobalBestLatest(newBestFit) == newBestFit

\* lines 339-340: the global best fitness after a generation whose best trial
\* has fitness newBestFit
NewGlobalBest(newBestFit) ==
    IF newBestFit < GlobalBestFitness THEN newBestFit ELSE GlobalBestFitness

\* get_Data, lines 17-24: the parts of Order moved to the best position (by
\* their number) and what is left of Stock once their union is taken out of
\* it (by its area); it builds new objects and stores nothing in Stock or
\* Order. The Order list holds no part, the union is empty.
get_Data == <<Given(0), Given(Stock.value - 0)>>

\* lines 327-380: evaluation of the trial population, selection, global best,
\* history slot, output function and the stop tests of one generation
EndGeneration ==
    /\ UNCHANGED <<nestVars, ctorVars, objVars, pickVars>>
    /\ pc = "eval"
    /\ LET fit == Evaluate(u)
           genProgressed == GenProgressed(fit)
           newZ == [c \in 0..(D - 1) |-> IF c \in genProgressed THEN u[c] ELSE z[c]]
           newBestInd == NewBestInd(fit)
           newBestFit == fit[newBestInd]
           improved == newBestFit < GlobalBestFitness
           hist == [GlobalBestSoFarFitnesses EXCEPT
                      ![Iteration + 1] = NewGlobalBest(newBestFit)]
       IN  /\ CurrentGenFitness' = fit
           /\ observed' = observed \cup {fit[c] : c \in 0..(D - 1)}
           /\ PreviousBestPosition' =
                [c \in 0..(D - 1) |->
                   IF c \in genProgressed THEN u[c] ELSE PreviousBestPosition[c]]
           /\ z' = newZ
           /\ PreviousBestFitness' =
                [c \in 0..(D - 1) |->
                   IF c \in genProgressed THEN fit[c] ELSE PreviousBestFitness[c]]
           /\ GlobalBestFitness' = NewGlobalBest(newBestFit)
           /\ GlobalBestPosition' =
                IF improved THEN newZ[newBestInd] ELSE GlobalBestPosition
           /\ StallCounter' =
                IF improved THEN Max2(0, StallCounter - 1) ELSE StallCounter + 1
           /\ IF improved /\ ~(Order /\ Stock.given)
              THEN \* get_Data: len(degl.Order) with Order = None raises, as
                   \* does degl.Stock.difference with Stock = None
                   /\ pc' = "fault"
                   /\ UNCHANGED <<GlobalBestSoFarFitnesses, StopReason, doStop>>
                   /\ UNCHANGED dataVars
              ELSE /\ GlobalBestSoFarFitnesses' = hist
                   /\ IF improved
                      THEN /\ self_newOrder' = get_Data[1]
                           /\ self_remaining' = get_Data[2]
                      ELSE UNCHANGED dataVars
                   /\ pc' = "loop"
                   /\ \E requested \in (IF OutputFcn THEN BOOLEAN ELSE {FALSE}) :
                        LET reason == StopTest(requested, hist, Iteration)
                        IN  IF reason # NoReason
                            THEN StopReason' = reason /\ doStop' = TRUE
                            ELSE UNCHANGED <<StopReason, doStop>>
    /\ UNCHANGED <<cfgVars, rowVars, rngVars, Iteration, w, i, u, initialFitness>>

\* the loop condition fails: lines 382-385
ExitLoop ==
    /\ UNCHANGED <<nestVars, ctorVars, objVars, pickVars>>
    /\ UNCHANGED dataVars
    /\ pc = "loop"
    /\ ~LoopGuard
    /\ pc' = "stopped"
    /\ UNCHANGED <<cfgVars, popVars, rowVars, rngVars, Iteration, StopReason, doStop,
                   w, i, u, observed, initialFitness>>

NextDegl ==
    \/ StartGeneration
    \/ Mutation
    \/ Crossover
    \/ Clamp
    \/ EndGeneration
    \/ ExitLoop

SpecDegl == InitDegl /\ [][NextDegl]_vars

----------------------------------------------------------------------------
(* the index draws of one candidate, lines 276-302, for every draw *)

\* triples of pairwise different members of S: what np.random.choice(...,
\* size=3, replace=False) can return
Triples(S) ==
    {t \in [1..3 -> S] : t[1] # t[2] /\ t[1] # t[3] /\ t[2] # t[3]}

\* every draw of positions in the neighbors array, every draw of population
\* indices (as offsets from the candidate)
AllDraws(d) ==
    {[local |-> l, global |-> <<1, 2, 3>>] : l \in Triples(0..(2 * RingRadius(d)))}
      \cup {[local |-> <<0, 1, 2>>, global |-> g] : g \in Triples(0..(d - 1))}

\* the default population size for nVars variables, a candidate and a draw
InitSample ==
    /\ NestIdle
    /\ CtorIdle
    /\ ObjIdle
    /\ DeglRestIdle
    /\ nVars \in 1..MaxNVars
    /\ D = DefaultD(nVars)
    /\ i \in 0..(D - 1)
    /\ stream \in AllDraws(D)
    /\ pc = "sample"

\* lines 280-283 and 296-302: p, q, r1, r2 of candidate i
Sample ==
    /\ UNCHANGED <<nestVars, ctorVars, objVars>>
    /\ pc = "sample"
    /\ 2 * k + 1 >= AdaptiveNeighborhoodSize
    /\ LET neighbors_idx == NotItself(ChoiceLocal(stream, Neighbors(i)), i)
           idx == NotItself(ChoiceGlobal(stream, i), i)
       IN  picked' = [p |-> neighbors_idx[1], q |-> neighbors_idx[2],
                      r1 |-> idx[1], r2 |-> idx[2]]
    /\ pc' = "sampled"
    /\ UNCHANGED <<cfgVars, popVars, rowVars, rngVars, dataVars, Iteration,
                   StopReason, doStop, w, i, u, observed, initialFitness>>

NextSample ==
    \/ Sample

SpecSample == InitSample /\ [][NextSample]_vars

----------------------------------------------------------------------------
(* run_PSO and run_pattern_search *)

\* the two controllers
Controllers == {"run_PSO", "run_pattern_search"}

\* geometries of the parts; two different geometries may have the same area
Shapes == {"unit", "square", "triangle"}
ShapeArea == [unit |-> 1, square |-> 2, triangle |-> 2]

\* areas of the stock pieces handed to a run
StockLists == {<<>>, <<4>>, <<3, 6>>, <<3, 3>>}

\* passes of the while loop that are followed
MaxPasses == 8

\* the parts are numbered 1..n; an order is a sequence of parts
PartArea(p) == ShapeArea[shapeOf[p]]

RECURSIVE Flatten(_)
Flatten(lists) ==
    IF lists = <<>> THEN <<>> ELSE Head(lists) \o Flatten(Tail(lists))

\* sum([o[w].area for w in range(0, len(o))])
RECURSIVE OrderArea(_)
OrderArea(o) == IF o = <<>> THEN 0 ELSE PartArea(Head(o)) + OrderArea(Tail(o))

\* the order lists whose concatenation is parts, in the order of parts
RECURSIVE Chunkings(_)
Chunkings(parts) ==
    IF parts = <<>> THEN {<<>>}
    ELSE UNION { { <<SubSeq(parts, 1, n)>> \o rest :
                     rest \in Chunkings(SubSeq(parts, n + 1, Len(parts))) } :
                 n \in 1..Len(parts) }

\* state at the first test of the while loop
InitNest ==
    /\ DeglIdle
    /\ CtorIdle
    /\ ObjIdle
    /\ controller \in Controllers
    /\ \E n \in 1..MaxParts :
         /\ shapeOf \in [1..n -> Shapes]
         /\ orders \in Chunkings([p \in 1..n |-> p])
         /\ shapesTotal = n
    /\ initialOrders = orders
    /\ difunion = 0
    /\ difArea = 0
    /\ \E stock \in StockLists :
         remaining = [j \in 1..Len(stock) |-> [area |-> stock[j], cut |-> {}]]
    /\ resList = <<>>
    /\ resListPerStock = <<>>
    /\ nonFitted = <<>>
    /\ count = 0
    /\ shapesF = 0
    /\ flag = FALSE
    /\ currentOrder = <<>>
    /\ shapeIdx = <<>>
    /\ scan = 1
    /\ stockIdx = 0
    /\ newOrder = <<>>
    /\ at = "while"

\* SortedCandidates that also takes the stocks whose area equals need
SortedCandidatesInclusive(rem, need) ==
    LET cand == {j \in 1..Len(rem) : rem[j].area >= need}
    IN  {s \in [1..Cardinality(cand) -> cand] :
           /\ \A j, l \in 1..Cardinality(cand) : j # l => s[j] # s[l]
           /\ \A j, l \in 1..Cardinality(cand) :
                j < l => rem[s[j]].area <= rem[s[l]].area}

\* the stocks whose remaining area exceeds need, in ascending order of area
\* (positions are 1-based; argsort may order equal areas either way)
SortedCandidates(rem, need) ==
    LET cand == {j \in 1..Len(rem) : rem[j].area > need}
    IN  {s \in [1..Cardinality(cand) -> cand] :
           /\ \A j, l \in 1..Cardinality(cand) : j # l => s[j] # s[l]
           /\ \A j, l \in 1..Cardinality(cand) :
                j < l => rem[s[j]].area <= rem[s[l]].area}

\* start of a pass: the head of the queue becomes the current order
BeginPass ==
    /\ UNCHANGED <<deglVars, ctorVars, objVars, pickVars>>
    /\ at = "while"
    /\ orders # <<>>
    /\ count < MaxPasses
    /\ flag' = FALSE
    /\ count' = count + 1
    /\ currentOrder' = orders[1]
    /\ shapeIdx' \in SortedCandidates(remaining, OrderArea(orders[1]))
    /\ scan' = 1
    /\ at' = "for"
    /\ UNCHANGED <<difunion, difArea>>
    /\ UNCHANGED <<initialOrders, controller, shapeOf, shapesTotal, orders, remaining, resList,
                   resListPerStock, nonFitted, shapesF, stockIdx, newOrder>>

\* the optimizer run of a trial either returns or raises
OptimizerOutcomes == {"returns", "raises"}

\* tolerance = 1e-4, the unit of the residual areas
tolerance == 1

\* the residual areas a trial can measure: none, exactly the tolerance, or
\* more; nothing of an empty order can lie outside the stock or overlap
Residuals(o) == IF o = <<>> THEN {0} ELSE {0, tolerance, 2 * tolerance}

\* Accepted with strict comparisons
AcceptedBelowTolerance(outside, overlap) ==
    outside < tolerance /\ overlap < tolerance

\* lines 396-411: neither "difunion.area > tolerance" nor
\* "difArea > tolerance" sends the scan on to the next stock
Accepted(outside, overlap) == ~(outside > tolerance) /\ ~(overlap > tolerance)

\* a commit that takes the parts out of every stock
CommitAll(rem, j, o) ==
    [n \in DOMAIN rem |-> [area |-> rem[n].area - OrderArea(o),
                           cut |-> rem[n].cut \cup {o[m] : m \in 1..Len(o)}]]

\* remaining[stockIdx].difference(p) for every part p of the order
Commit(rem, j, o) ==
    [rem EXCEPT ![j] = [area |-> @.area - OrderArea(o),
                        cut |-> @.cut \cup {o[n] : n \in 1..Len(o)}]]

\* one trial of the current order on the next candidate stock
Trial ==
    /\ UNCHANGED <<deglVars, ctorVars, objVars, pickVars>>
    /\ at = "for"
    /\ scan <= Len(shapeIdx)
    /\ stockIdx' = shapeIdx[scan]
    /\ \E run \in OptimizerOutcomes :
       \E outside \in Residuals(currentOrder), overlap \in Residuals(currentOrder) :
         IF run = "raises"
         THEN /\ at' = "exit"
              /\ UNCHANGED <<newOrder, scan, flag, remaining, difunion, difArea>>
         ELSE /\ newOrder' = currentOrder
              /\ difunion' = outside
              \* difArea is computed only after the first test let the trial on
              /\ difArea' = IF outside > tolerance THEN difArea ELSE overlap
              /\ IF ~Accepted(outside, overlap)
                 THEN /\ scan' = scan + 1
                      /\ at' = "for"
                      /\ UNCHANGED <<flag, remaining>>
                 ELSE /\ flag' = TRUE
                      /\ remaining' = Commit(remaining, shapeIdx[scan], currentOrder)
                      /\ at' = "after"
                      /\ UNCHANGED scan
    /\ UNCHANGED <<initialOrders, controller, shapeOf, shapesTotal, orders, resList,
                   resListPerStock, nonFitted, count, shapesF, currentOrder,
                   shapeIdx>>

\* the for loop is over, by break or by exhaustion of shapeIdx
ScanDone == at = "after" \/ (at = "for" /\ scan > Len(shapeIdx))


\* two parts that sorted() cannot order: equal areas make the tuple
\* comparison fall through to the polygons, which have no ordering
Unorderable(o) ==
    \E j, l \in 1..Len(o) :
        /\ PartArea(o[j]) = PartArea(o[l])
        /\ shapeOf[o[j]] # shapeOf[o[l]]

\* sorted(zip(objectArea, currentOrder)): ascending area, equal parts keep
\* their order
RECURSIVE SortByArea(_)
SortByArea(o) ==
    IF o = <<>> THEN <<>>
    ELSE LET front == SortByArea(SubSeq(o, 1, Len(o) - 1))
             p == o[Len(o)]
             pos == Cardinality({j \in 1..Len(front) :
                                   PartArea(front[j]) <= PartArea(p)})
         IN  SubSeq(front, 1, pos) \o <<p>> \o SubSeq(front, pos + 1, Len(front))

\* int(len(o) / 2)
Half(o) == Len(o) \div 2

\* temp1 = o[0:int(len(o) / 2)]
FirstHalf(o) == SubSeq(o, 1, Half(o))

SecondHalfSkipping(o) == SubSeq(o, Half(o) + 2, Len(o))

\* temp2 = o[int(len(o) / 2):len(o)]
SecondHalf(o) == SubSeq(o, Half(o) + 1, Len(o))

\* Remove that takes the last element out
RemoveLast(list, x) == SubSeq(list, 1, Len(list) - 1)

\* list.remove(x): the first element equal to x is taken out
Remove(list, x) ==
    LET hits == {j \in 1..Len(list) : list[j] = x}
        first == CHOOSE j \in hits : \A l \in hits : j <= l
    IN  IF hits = {} THEN list
        ELSE SubSeq(list, 1, first - 1) \o SubSeq(list, first + 1, Len(list))

\* "if not flag" of run_PSO: sort by area, then split
NotFittedPSO ==
    IF currentOrder = <<>> \/ Unorderable(currentOrder)
    THEN \* the unpacking of an empty zip, or the comparison of two polygons
         /\ at' = "error"
         /\ UNCHANGED <<orders, nonFitted, currentOrder>>
    ELSE LET sorted == SortByArea(currentOrder)
         IN  /\ currentOrder' = sorted
             /\ at' = "while"
             /\ IF sorted # <<>>
                THEN /\ orders' = <<FirstHalf(sorted), SecondHalf(sorted)>>
                                     \o Tail(orders)
                     /\ UNCHANGED nonFitted
                ELSE /\ nonFitted' = Append(nonFitted, orders[1])
                     /\ orders' = Remove(orders, sorted)

\* "if not flag" of run_pattern_search: split, or give the single part up
NotFittedPatternSearch ==
    /\ at' = "while"
    /\ UNCHANGED currentOrder
    /\ IF Half(currentOrder) # 0
       THEN /\ orders' = <<FirstHalf(currentOrder), SecondHalf(currentOrder)>>
                            \o Tail(orders)
            /\ UNCHANGED nonFitted
       ELSE /\ nonFitted' = Append(nonFitted, orders[1])
            /\ orders' = Remove(orders, currentOrder)

\* the order fitted no candidate stock
NotFitted ==
    /\ UNCHANGED <<deglVars, ctorVars, objVars, pickVars>>
    /\ ScanDone
    /\ ~flag
    /\ IF controller = "run_PSO" THEN NotFittedPSO ELSE NotFittedPatternSearch
    \* the residuals are not read again before the next trial measures them anew
    /\ difunion' = 0
    /\ difArea' = 0
    /\ UNCHANGED <<initialOrders, controller, shapeOf, shapesTotal, remaining, resList,
                   resListPerStock, count, shapesF, flag, shapeIdx, scan,
                   stockIdx, newOrder>>

\* the order was committed to stockIdx
Fitted ==
    /\ UNCHANGED <<deglVars, ctorVars, objVars, pickVars>>
    /\ ScanDone
    /\ flag
    /\ shapesF' = shapesF + Len(currentOrder)
    /\ resList' = Append(resList, newOrder)
    /\ resListPerStock' = Append(resListPerStock, stockIdx)
    /\ orders' = Remove(orders, currentOrder)
    /\ at' = "while"
    \* the residuals are not read again before the next trial measures them anew
    /\ difunion' = 0
    /\ difArea' = 0
    /\ UNCHANGED <<initialOrders, controller, shapeOf, shapesTotal, remaining, nonFitted, count,
                   flag, currentOrder, shapeIdx, scan, stockIdx, newOrder>>

\* the queue is empty: the results are printed
Finish ==
    /\ UNCHANGED <<deglVars, ctorVars, objVars, pickVars>>
    /\ at = "while"
    /\ orders = <<>>
    /\ at' = "done"
    /\ UNCHANGED <<difunion, difArea>>
    /\ UNCHANGED <<initialOrders, controller, shapeOf, shapesTotal, orders, remaining, resList,
                   resListPerStock, nonFitted, count, shapesF, flag, currentOrder,
                   shapeIdx, scan, stockIdx, newOrder>>

NextNest ==
    \/ BeginPass
    \/ Trial
    \/ NotFitted
    \/ Fitted
    \/ Finish

SpecNest == InitNest /\ [][NextNest]_vars

----------------------------------------------------------------------------
(* ObjectiveFcn of the two controllers *)

\* Polygons are axis-parallel rectangles on the integer grid, given by their
\* lower left corner and their sides. The order holds one part, at most as
\* wide and as high as the stock.
Rect(x0, y0, width, height) == [x |-> x0, y |-> y0, w |-> width, h |-> height]

\* stocks handed to ObjectiveFcn: at the origin, across it and below it
ObjectiveStocks ==
    {Rect(0, 0, 4, 4), Rect(-2, -2, 4, 4), Rect(-50, -50, 4, 4),
     Rect(-20000, -20000, 4, 4)}

\* parts, as they are defined before a placement
ObjectiveParts ==
    {Rect(0, 0, 1, 1), Rect(0, 0, 2, 2), Rect(0, 0, 1, 3), Rect(0, 0, 4, 4)}

\* rotation angles of a candidate, in degrees, within [0, 360]
Angles == {0, 90, 360}

\* candidate vectors within the bounds the controllers derive from the stock:
\* x in [minx, maxx], y in [miny, maxy], angle in [0, 360]
Candidates(stock) ==
    {<<xoff, yoff, angle>> :
        xoff \in {stock.x, stock.x + 1, stock.x + stock.w},
        yoff \in {stock.y, stock.y + 1, stock.y + stock.h},
        angle \in Angles}

\* module constants, lines 15-19, and the local a, in hundredths
Weights ==
    [run_PSO |-> [w_f_OUT |-> 5000, w_f_OVERLAP |-> 5000, w_f_ATTR |-> 300,
                  w_f_SMO |-> 1000, w_f_DIST |-> 500, a |-> 110],
     run_pattern_search |-> [w_f_OUT |-> 500, w_f_OVERLAP |-> 500, w_f_ATTR |-> 1,
                             w_f_SMO |-> 500, w_f_DIST |-> 100, a |-> 111]]

\* shapely.affinity.translate
Translate(p, xoff, yoff) == [p EXCEPT !.x = @ + xoff, !.y = @ + yoff]

\* shapely.affinity.rotate about the centroid, for multiples of 90 degrees
Rotate(p, angle) ==
    IF angle \in {90, 270}
    THEN Rect(p.x + (p.w - p.h) \div 2, p.y + (p.h - p.w) \div 2, p.h, p.w)
    ELSE p

\* length of the common part of two intervals
Overlap1(lo1, hi1, lo2, hi2) == Max2(0, Min2(hi1, hi2) - Max2(lo1, lo2))

IntersectionWidth(p, s) == Overlap1(p.x, p.x + p.w, s.x, s.x + s.w)
IntersectionHeight(p, s) == Overlap1(p.y, p.y + p.h, s.y, s.y + s.h)
IntersectionArea(p, s) == IntersectionWidth(p, s) * IntersectionHeight(p, s)

\* the part reaches a vertical, a horizontal side of the stock
TouchesX(p, s) == p.x <= s.x \/ p.x + p.w >= s.x + s.w
TouchesY(p, s) == p.y <= s.y \/ p.y + p.h >= s.y + s.h

\* the part takes a corner out of the stock
CoversCorner(p, s) ==
    /\ IntersectionArea(p, s) > 0
    /\ TouchesX(p, s)
    /\ TouchesY(p, s)

\* twice the area of the convex hull of stock minus part: nothing when the
\* part covers the stock, the rectangle that is left when the part takes a
\* whole side, else the stock, less the triangle over a corner taken out
HullArea2(p, s) ==
    LET iw == IntersectionWidth(p, s)
        ih == IntersectionHeight(p, s)
        whole == 2 * s.w * s.h
    IN  IF iw * ih = 0 THEN whole
        ELSE IF iw = s.w /\ ih = s.h THEN 0
        ELSE IF iw = s.w THEN (IF TouchesY(p, s) THEN whole - 2 * iw * ih ELSE whole)
        ELSE IF ih = s.h THEN (IF TouchesX(p, s) THEN whole - 2 * iw * ih ELSE whole)
        ELSE IF CoversCorner(p, s) THEN whole - iw * ih
        ELSE whole

\* Order[j] moved by the candidate vector
Placed(particle, order) ==
    Rotate(Translate(order[1], particle[1], particle[2]), particle[3])

\* the area of Stock.difference(union)
RemainingArea(particle, stock, order) ==
    stock.w * stock.h - IntersectionArea(Placed(particle, order), stock)

\* twice area * centroid.x + area * centroid.y of a part
AreaCentroid2(p) == p.w * p.h * (2 * p.x + p.w) + p.w * p.h * (2 * p.y + p.h)

\* ObjectiveFcn(particle, nVars, Stock, Order) of the controller fcn, in
\* hundredths, rounded down. With one part the union is the part, f_OVERLAP
\* is 0 and f_DIST is an empty sum.
NestObjectiveFcn(fcn, particle, stock, order) ==
    LET wt == Weights[fcn]
        placed == Placed(particle, order)
        areaSum == placed.w * placed.h
        f_OUT == areaSum - IntersectionArea(placed, stock)
        f_OVERLAP == areaSum - placed.w * placed.h
        f_DIST == 0
        f_ATTR2 == AreaCentroid2(placed)
        rem == RemainingArea(particle, stock, order)
        hull2 == HullArea2(placed, stock)
        \* l = hull.area / remaining.area - 1, f_SMO = 1 / (1 + a * l)
        f_SMO == (100 * wt.w_f_SMO * 200 * rem)
                    \div (200 * rem + wt.a * (hull2 - 2 * rem))
    IN  100 * f_OUT * wt.w_f_OUT + 100 * f_OVERLAP * wt.w_f_OVERLAP
          + f_DIST * wt.w_f_DIST + wt.w_f_ATTR * (f_ATTR2 \div 2) + f_SMO

InitObjective ==
    /\ DeglIdle
    /\ NestIdle
    /\ CtorIdle
    /\ \E fcn \in Controllers, stock \in ObjectiveStocks, part \in ObjectiveParts :
         \E particle \in Candidates(stock) :
            call = [fcn |-> fcn, particle |-> particle, Stock |-> stock,
                    Order |-> <<part>>]
    /\ result = NoneArg
    /\ raised = "none"
    /\ picked = NoPick

\* the call returns or raises
CallObjectiveFcn ==
    /\ UNCHANGED <<deglVars, nestVars, ctorVars, pickVars>>
    /\ ~result.given
    /\ raised = "none"
    /\ call # <<>>
    /\ IF RemainingArea(call.particle, call.Stock, call.Order) = 0
       THEN \* hull.area / remaining.area, two floats: 0.0 / 0.0 raises
            /\ raised' = "ZeroDivisionError"
            /\ UNCHANGED result
       ELSE /\ result' = Given(NestObjectiveFcn(call.fcn, call.particle,
                                                call.Stock, call.Order))
            /\ UNCHANGED raised
    /\ UNCHANGED call

NextObjective ==
    \/ CallObjectiveFcn

SpecObjective == InitObjective /\ [][NextObjective]_vars

----------------------------------------------------------------------------
(* the attraction-distance term of ObjectiveFcn *)

\* orders of up to this many parts are followed
MaxDistParts == 3

\* the transformed parts: squares standing on one line, by side and position
DistParts == {Rect(x0, 0, side, side) : x0 \in {0, 3, 7}, side \in {1, 2, 3}}

\* lists indexed from 0, as Python's
NewOrders == UNION {[0..(n - 1) -> DistParts] : n \in 1..MaxDistParts}

\* the permutations of 0..n-1
Perms(n) ==
    {f \in [0..(n - 1) -> 0..(n - 1)] :
        \A s1, s2 \in 0..(n - 1) : s1 # s2 => f[s1] # f[s2]}

PartAreaOf(p) == p.w * p.h

\* np.argsort of the areas: a permutation that lists them ascending; which
\* one among equal areas is not fixed
ArgSorts(parts, n) ==
    {f \in Perms(n) :
        \A t \in 0..(n - 2) : PartAreaOf(parts[f[t]]) <= PartAreaOf(parts[f[t + 1]])}

\* list[-s] of a list of n entries
NegativeIndex(s, n) == IF s = 0 THEN 0 ELSE n - s

\* sortedM: main_PSOx4.py line 146 indexes newOrder by -sortedOrder,
\* main_pattern_search.py line 136 by sortedOrder
SortedM(fcn, parts, n, sortedOrder) ==
    IF fcn = "run_PSO"
    THEN [t \in 0..(n - 1) |-> parts[NegativeIndex(sortedOrder[t], n)]]
    ELSE [t \in 0..(n - 1) |-> parts[sortedOrder[t]]]

\* shapely distance of two rectangles on one line: the gap between them
Distance(p, q) == Max2(0, Max2(p.x, q.x) - Min2(p.x + p.w, q.x + q.w))

\* sum of seq[t].distance(seq[t + 1]) for t in range(0, n - 1), from t on
RECURSIVE ConsecutiveDistances(_, _, _)
ConsecutiveDistances(seq, n, t) ==
    IF t >= n - 1 THEN 0
    ELSE Distance(seq[t], seq[t + 1]) + ConsecutiveDistances(seq, n, t + 1)

\* f_DIST
F_DIST(fcn, parts, n, sortedOrder) ==
    ConsecutiveDistances(SortedM(fcn, parts, n, sortedOrder), n, 0)

InitDist ==
    /\ DeglIdle
    /\ NestIdle
    /\ CtorIdle
    /\ \E fcn \in Controllers, parts \in NewOrders :
         \E sortedOrder \in ArgSorts(parts, Cardinality(DOMAIN parts)) :
            call = [fcn |-> fcn, newOrder |-> parts, sortedOrder |-> sortedOrder]
    /\ result = NoneArg
    /\ raised = "none"
    /\ picked = NoPick

\* lines 144-149: the term is computed
SumDistances ==
    /\ UNCHANGED <<deglVars, nestVars, ctorVars, pickVars>>
    /\ ~result.given
    /\ result' = Given(F_DIST(call.fcn, call.newOrder,
                              Cardinality(DOMAIN call.newOrder), call.sortedOrder))
    /\ UNCHANGED <<call, raised>>

NextDist ==
    \/ SumDistances

SpecDist == InitDist /\ [][NextDist]_vars

----------------------------------------------------------------------------
(* the trials of successive orders on one stock, polygon by polygon *)

\* Polygons are sets of cells on a line, one cell having the area of the
\* tolerance. The stock as handed over:
SheetCells == 0..3

\* commits that are followed on the stock
MaxCommits == 2

\* a transformed part: one or two cells next to each other, on the sheet,
\* across its ends or beside it
PlacedParts == {lo..(lo + len - 1) : lo \in -1..4, len \in 1..2}

\* the transformed parts of an order, wherever the optimizer put them
Placements ==
    {<<part>> : part \in PlacedParts}
       \cup {<<part1, part2>> : part1 \in PlacedParts, part2 \in PlacedParts}

\* shapely.ops.cascaded_union
UnionOf(parts) == UNION {parts[n] : n \in 1..Len(parts)}

\* sum of the areas of the parts
RECURSIVE AreaSum(_)
AreaSum(parts) ==
    IF parts = <<>> THEN 0 ELSE Cardinality(Head(parts)) + AreaSum(Tail(parts))

\* a commit that leaves the stock as it was
CutOutNothing(stock, parts) == stock

\* lines 415-417: remaining[stockIdx].difference(p) for every part p
CutOut(stock, parts) == stock \ UnionOf(parts)

InitSheet ==
    /\ DeglIdle
    /\ CtorIdle
    /\ ObjIdle
    /\ controller \in Controllers
    /\ remaining = <<SheetCells>>
    /\ resList = <<>>
    /\ resListPerStock = <<>>
    /\ difunion = 0
    /\ difArea = 0
    /\ flag = FALSE
    /\ stockIdx = 1
    /\ at = "sheet"
    /\ shapeOf = <<>>
    /\ shapesTotal = 0
    /\ initialOrders = <<>>
    /\ orders = <<>>
    /\ nonFitted = <<>>
    /\ count = 0
    /\ shapesF = 0
    /\ currentOrder = <<>>
    /\ shapeIdx = <<>>
    /\ scan = 0
    /\ newOrder = <<>>

\* lines 380-417 and 441-447 for one order on the stock: the optimizer
\* returns a placement, the two residuals are measured against what remains
\* of the stock, and an accepted placement is cut out and recorded
TrialOnSheet ==
    /\ UNCHANGED <<deglVars, ctorVars, objVars, pickVars>>
    /\ at = "sheet"
    /\ Len(resList) < MaxCommits
    /\ \E placement \in Placements :
         LET currentStock == remaining[stockIdx]
             union == UnionOf(placement)
             outside == Cardinality(union \ currentStock)
             overlap == AreaSum(placement) - Cardinality(union)
         IN  \* the stock is a candidate: its area exceeds the order's
             /\ Cardinality(currentStock) > AreaSum(placement)
             /\ difunion' = outside
             /\ difArea' = IF outside > tolerance THEN difArea ELSE overlap
             /\ flag' = Accepted(outside, overlap)
             /\ IF Accepted(outside, overlap)
                THEN /\ remaining' =
                          [remaining EXCEPT ![stockIdx] = CutOut(@, placement)]
                     /\ resList' = Append(resList, placement)
                     /\ resListPerStock' = Append(resListPerStock, stockIdx)
                ELSE UNCHANGED <<remaining, resList, resListPerStock>>
    /\ UNCHANGED <<controller, shapeOf, shapesTotal, initialOrders, orders,
                   nonFitted, count, shapesF, currentOrder, shapeIdx, scan,
                   stockIdx, newOrder, at>>

NextSheet ==
    \/ TrialOnSheet

SpecSheet == InitSheet /\ [][NextSheet]_vars

----------------------------------------------------------------------------
(* a run of the repository: Degl.optimize or one of the two controllers *)

InitRuns ==
    \/ InitDegl
    \/ InitNest

NextRuns ==
    \/ StartGeneration
    \/ Mutation
    \/ Crossover
    \/ Clamp
    \/ EndGeneration
    \/ ExitLoop
    \/ BeginPass
    \/ Trial
    \/ NotFitted
    \/ Fitted
    \/ Finish

SpecRuns == InitRuns /\ [][NextRuns]_vars

----------------------------------------------------------------------------
(* Properties of Degl *)

InitialBest == SetMin({initialFitness[c] : c \in 0..(D - 1)})

AfterGeneration == pc \in {"loop", "stopped"} /\ Iteration >= 0

\* C1: for every accepted configuration optimize() ends within MaxIterations
\* generations by setting one of the three stop reasons, never by a fault.
\* Refuted: with MaxIterations stored as 1 the weight w divides by
\* MaxIterations - 1 = 0 in the first generation.
OptimizeEndsWithReason ==
    /\ pc # "fault"
    /\ Iteration + 1 <= MaxIterations
    /\ pc = "stopped" => StopReason \in StopReasons

\* C5: slot 0 of the best-so-far history holds the initial population's best
\* fitness, and the slot written by every executed generation t is at most
\* the slot before it.
BestSoFarNonIncreasing ==
    /\ GlobalBestSoFarFitnesses[0] = InitialBest
    /\ \A t \in 0..Iteration :
         (t < Iteration \/ pc \in {"loop", "stopped"}) =>
            /\ GlobalBestSoFarFitnesses[t + 1] # NaN
            /\ GlobalBestSoFarFitnesses[t + 1] <= GlobalBestSoFarFitnesses[t]

\* a generation recorded a strictly better best-so-far value after one that
\* recorded no improvement
BestSoFarImproved ==
    /\ AfterGeneration
    /\ \E t \in 1..Iteration :
         /\ GlobalBestSoFarFitnesses[t + 1] < GlobalBestSoFarFitnesses[t]
         /\ GlobalBestSoFarFitnesses[t] = GlobalBestSoFarFitnesses[t - 1]

\* C6: GlobalBestFitness is the minimum of every fitness value evaluated so
\* far, and the fitness arrays have exactly D entries.
GlobalBestIsMinObserved ==
    /\ GlobalBestFitness = SetMin(observed)
    /\ DOMAIN CurrentGenFitness = 0..(D - 1)
    /\ DOMAIN PreviousBestFitness = 0..(D - 1)

\* a later generation found a value below the initial best while its first
\* trial was not the best of the generation
GlobalBestBelowInitial ==
    /\ AfterGeneration
    /\ GlobalBestFitness < InitialBest
    /\ CurrentGenFitness[0] > GlobalBestFitness

\* C7: every evaluated trial component lies within its bounds, and the bound
\* correction saturates: below the lower bound gives the lower bound, above
\* the upper bound gives the upper bound, anything else is kept.
TrialWithinBounds ==
    /\ [](pc = "eval" =>
            \A c \in 0..(D - 1) : \A v \in 0..(nVars - 1) :
               LowerBounds[v] <= u[c][v] /\ u[c][v] <= UpperBounds[v])
    /\ [][pc = "clamp" =>
            \A v \in 0..(nVars - 1) :
               u'[i][v] = IF u[i][v] < LowerBounds[v] THEN LowerBounds[v]
                          ELSE IF u[i][v] > UpperBounds[v] THEN UpperBounds[v]
                          ELSE u[i][v]]_vars

\* the trial population under evaluation holds a component that was blended
\* above its upper bound and one that was blended below its lower bound
TrialSaturated ==
    /\ pc = "eval"
    /\ \E v \in 0..(nVars - 1) : y[v] > UpperBounds[v] /\ u[D - 1][v] = UpperBounds[v]
    /\ \E c \in 0..(D - 1) : \E v \in 0..(nVars - 1) : u[c][v] = LowerBounds[v]

\* C8: a stopped run carries exactly one of the three reasons, the reason is
\* written once, and once a stop condition is taken Iteration stays.
StopReasonOnce ==
    /\ [](pc = "stopped" => StopReason \in StopReasons)
    /\ [](doStop <=> StopReason # NoReason)
    /\ [][StopReason # NoReason => StopReason' = StopReason]_vars
    /\ [][doStop => Iteration' = Iteration]_vars

\* the output function asked to stop in the generation that also reached the
\* iteration cap, and the run stopped with the output function's reason
StoppedWithTwoConditions ==
    /\ pc = "stopped"
    /\ StopReason = ReasonOutputFcn
    /\ Iteration >= MaxIterations - 1

\* C9: crossover takes at least one variable from the blended row y[i], and a
\* forced crossover index designating one variable of the candidate is what
\* guarantees it.  Refuted: j_rand is drawn from 0..D and compared with the
\* ring radius k.
ForcedIndexDesignatesVariable ==
    pc = "clamp" =>
       /\ fromY # {}
       /\ j_rand \in 0..(nVars - 1)
       /\ j_rand \in fromY

\* C10 as stated: whenever the history holds the value recorded
\* MaxStallIterations generations earlier and it equals the current best, and
\* neither the output function nor the iteration cap stops the run, the run
\* stops with the insignificant-improvement reason.
StallWindowStops ==
    ( /\ AfterGeneration
      /\ Iteration + 1 - MaxStallIterations >= 0
      /\ GlobalBestSoFarFitnesses[Iteration + 1 - MaxStallIterations]
            = GlobalBestSoFarFitnesses[Iteration + 1]
      /\ StopReason # ReasonOutputFcn
      /\ Iteration < MaxIterations - 1 )
    => (doStop /\ StopReason = ReasonStall)

\* C10 amended: the same, for generations with Iteration > MaxStallIterations.
StallWindowStopsAfterWarmup ==
    ( /\ AfterGeneration
      /\ Iteration > MaxStallIterations
      /\ GlobalBestSoFarFitnesses[Iteration + 1 - MaxStallIterations]
            = GlobalBestSoFarFitnesses[Iteration + 1]
      /\ StopReason # ReasonOutputFcn
      /\ Iteration < MaxIterations - 1 )
    => (doStop /\ StopReason = ReasonStall)

\* a run stopped for insignificant improvement on an unchanged window
StoppedOnStall ==
    /\ pc = "stopped"
    /\ StopReason = ReasonStall
    /\ Iteration > MaxStallIterations
    /\ GlobalBestSoFarFitnesses[Iteration + 1 - MaxStallIterations]
          = GlobalBestSoFarFitnesses[Iteration + 1]

\* C11: a run constructed with MaxIterations = 0 completes: it does not end
\* in a fault, and when it has stopped without a generation improving on it
\* GlobalBestFitness is the best fitness of the initial population.
MinimalRunCompletes ==
    MaxIterationsArg = 0 =>
        /\ pc # "fault"
        /\ (pc = "stopped" => GlobalBestFitness <= InitialBest)

----------------------------------------------------------------------------
(* Properties of the nesting controllers *)

\* the step after the for loop replaced the head of the queue by two
\* non-empty orders, each shorter than the head
HeadSplitSmaller ==
    /\ Len(orders') = Len(orders) + 1
    /\ Tail(Tail(orders')) = Tail(orders)
    /\ \A j \in 1..2 : Len(orders'[j]) > 0 /\ Len(orders'[j]) < Len(orders[1])

\* C2: every pass of the while loop comes back to the loop test having either
\* removed the head order or replaced it by strictly smaller non-empty
\* sub-orders, also when a single-part order fits no stock.
PassShrinksQueue ==
    [][ScanDone => /\ at' = "while"
                   /\ (orders' = Tail(orders) \/ HeadSplitSmaller)]_vars

\* C3: when the head order has exactly one part and no candidate stock passed
\* validation, that pass appends the order to nonFitted and removes it from
\* the queue, leaving the rest of the queue as it was.
SinglePartGivenUp ==
    [][(ScanDone /\ ~flag /\ Len(currentOrder) = 1)
          => /\ nonFitted' = Append(nonFitted, orders[1])
             /\ orders' = Tail(orders)]_vars

\* seq holds each of the parts 1..n exactly once
ExactlyOnce(seq, n) ==
    /\ Len(seq) = n
    /\ {seq[j] : j \in 1..Len(seq)} = 1..n

\* C4: at every test of the while loop, and so when the run finishes with an
\* empty queue, every part of the original orders is held exactly once by the
\* queue, by resList or by nonFitted, and shapesF plus the parts of nonFitted
\* plus the parts still queued is shapesTotal.
PartsConserved ==
    at \in {"while", "done"} =>
        /\ ExactlyOnce(Flatten(orders) \o Flatten(resList) \o Flatten(nonFitted),
                       shapesTotal)
        /\ shapesF + Len(Flatten(nonFitted)) + Len(Flatten(orders)) = shapesTotal
        /\ (at = "done" => orders = <<>>)

\* a finished run that split an order, committed a part and gave a part up
FinishedAfterSplit ==
    /\ at = "done"
    /\ Flatten(resList) # <<>>
    /\ nonFitted # <<>>
    /\ count > Len(resList) + Len(nonFitted)

----------------------------------------------------------------------------
(* Properties of Degl.__init__ *)

\* C12: a construction with an explicit integer D > 1 does not end in an
\* error of the population-size step and creates exactly D candidates; with
\* D omitted it creates min(200, 10 * nVars) candidates.
ExplicitDConstructs ==
    /\ (args.D.given /\ args.D.value > 1) => ctor # "AttributeError"
    /\ ctor = "constructed" =>
          Cardinality(DOMAIN self.z) =
             IF args.D.given THEN args.D.value ELSE DefaultD(args.nVars)

\* the bounds arguments as the caller gave them, one entry per variable
GivenLower == BoundsArray(args.LowerBounds, args.nVars, -1000)
GivenUpper == BoundsArray(args.UpperBounds, args.nVars, 1000)

\* the four kinds of invalid options
InvalidOptions ==
    \/ args.D.given /\ args.D.value <= 1
    \/ args.FunctionTolerance < 0
    \/ Cardinality(DOMAIN GivenLower) # args.nVars
    \/ Cardinality(DOMAIN GivenUpper) # args.nVars
    \/ \E v \in DOMAIN GivenLower \cap DOMAIN GivenUpper :
          GivenLower[v] > GivenUpper[v]

SplitByArea ==
    [][(ScanDone /\ ~flag /\ Len(currentOrder) > 1) =>
          /\ at' = "while"
          /\ Len(orders') = Len(orders) + 1
          /\ Tail(Tail(orders')) = Tail(orders)
          /\ Len(orders'[1]) = Len(currentOrder) \div 2
          /\ LET both == orders'[1] \o orders'[2]
             IN  /\ Len(both) = Len(currentOrder)
                 /\ {both[j] : j \in 1..Len(both)}
                      = {currentOrder[j] : j \in 1..Len(currentOrder)}
                 /\ \A j, l \in 1..Len(both) :
                      j < l => PartArea(both[j]) <= PartArea(both[l])]_vars

\* sum of the areas of a set of parts
RECURSIVE SetArea(_)
SetArea(S) ==
    IF S = {} THEN 0
    ELSE LET p == CHOOSE q \in S : TRUE IN PartArea(p) + SetArea(S \ {p})

\* the run was handed one order of two parts whose total area exceeds the
\* area of every stock as handed to the run
TwoPartsExceedEveryStock ==
    /\ Len(initialOrders) = 1
    /\ Len(initialOrders[1]) = 2
    /\ \A j \in 1..Len(remaining) :
         OrderArea(initialOrders[1]) > remaining[j].area + SetArea(remaining[j].cut)

\* C15: a run handed one order of two parts whose total area exceeds every
\* stock does not end in an error, and when it has finished both parts are
\* in nonFitted.
OversizedOrderNonFitted ==
    TwoPartsExceedEveryStock =>
        /\ at # "error"
        /\ at = "done" =>
              {initialOrders[1][j] : j \in 1..2}
                 \subseteq {Flatten(nonFitted)[j] : j \in 1..Len(Flatten(nonFitted))}

\* C16: the stocks scanned for the head order are exactly the stocks whose
\* current remaining area is strictly above the order's area, each once, in
\* ascending order of remaining area; every trial is on the next of them;
\* and a commit is made to the stock of the trial that passed, which ends
\* the scan.
CandidatesAscending ==
    /\ [](at = "for" =>
            /\ currentOrder = orders[1]
            /\ {shapeIdx[l] : l \in 1..Len(shapeIdx)}
                  = {j \in 1..Len(remaining) :
                        remaining[j].area > OrderArea(orders[1])}
            /\ \A l, m \in 1..Len(shapeIdx) :
                  l < m => /\ shapeIdx[l] # shapeIdx[m]
                           /\ remaining[shapeIdx[l]].area
                                 <= remaining[shapeIdx[m]].area)
    /\ [][(at = "for" /\ scan <= Len(shapeIdx)) =>
            /\ stockIdx' = shapeIdx[scan]
            /\ remaining[stockIdx'].area > OrderArea(orders[1])
            /\ \A l \in 1..(scan - 1) :
                  remaining[shapeIdx[l]].area <= remaining[stockIdx'].area]_vars
    /\ [][(remaining' # remaining) =>
            /\ at = "for" /\ at' = "after" /\ flag'
            /\ \A j \in 1..Len(remaining) :
                  j # shapeIdx[scan] => remaining'[j] = remaining[j]]_vars

\* after an earlier commit, an order failed on the smaller candidate stock
\* and was committed to the second, larger one
CommittedToSecondCandidate ==
    /\ at = "after"
    /\ flag
    /\ scan = 2
    /\ Len(resList) >= 1
    /\ remaining[shapeIdx[1]].area < remaining[shapeIdx[2]].area + OrderArea(currentOrder)

\* C17: a trial that ran is accepted exactly when the area of the placed
\* parts outside the stock and the overlap area of the placed parts are both
\* at most the tolerance; otherwise nothing is committed and the scan moves
\* on to the next candidate stock.
AcceptedIffWithinTolerance ==
    [][(at = "for" /\ scan <= Len(shapeIdx) /\ at' # "exit") =>
          LET within == difunion' <= tolerance /\ difArea' <= tolerance
          IN  /\ flag' <=> within
              /\ within => at' = "after"
              /\ ~within => /\ remaining' = remaining
                            /\ at' = "for"
                            /\ scan' = scan + 1]_vars

\* a trial with both residuals exactly at the tolerance was accepted on the
\* second candidate stock
AcceptedAtTolerance ==
    /\ at = "after"
    /\ flag
    /\ currentOrder # <<>>
    /\ scan = 2
    /\ difunion = tolerance
    /\ difArea = tolerance

\* C18: the step that accepts a trial subtracts every placed part from the
\* stock of that trial and ends the scan; the pass then appends the placed
\* parts to resList and the stock index to resListPerStock, which stay of
\* equal length, and takes exactly the head order out of the queue; no trial
\* is run once the order is accepted.
CommitRecordsPlacement ==
    /\ [](Len(resList) = Len(resListPerStock))
    /\ [](at = "for" => ~flag)
    /\ [][(flag' /\ ~flag) =>
            /\ at' = "after"
            /\ remaining'[stockIdx'].area
                  = remaining[stockIdx'].area - OrderArea(currentOrder)
            /\ remaining'[stockIdx'].cut
                  = remaining[stockIdx'].cut
                       \cup {currentOrder[j] : j \in 1..Len(currentOrder)}]_vars
    /\ [][(ScanDone /\ flag) =>
            /\ resList' = Append(resList, orders[1])
            /\ resListPerStock' = Append(resListPerStock, stockIdx)
            /\ {orders[1][j] : j \in 1..Len(orders[1])}
                  \subseteq remaining[stockIdx].cut
            /\ orders' = Tail(orders)
            /\ remaining' = remaining
            /\ at' = "while"]_vars

\* two orders were committed, to different stocks, and orders are left
CommittedTwice ==
    /\ at = "while"
    /\ flag
    /\ Len(resList) = 2
    /\ resListPerStock[1] # resListPerStock[2]
    /\ orders # <<>>

\* C19: the remaining polygons of the stocks change only in the step that
\* accepts a trial, and then only the stock of that trial changes: a trial
\* that fails validation, a split of the order and a move to the non-fitted
\* set leave all of them as they were; Degl.optimize leaves the Stock and the
\* Order it was given as they were, also when it stores a placement.
StockChangesOnlyInCommit ==
    /\ [][remaining' # remaining =>
            /\ at = "for" /\ ~flag /\ flag' /\ at' = "after"
            /\ Len(remaining') = Len(remaining)
            /\ \A j \in 1..Len(remaining) :
                  j # stockIdx' => remaining'[j] = remaining[j]]_vars
    /\ [][(at = "for" /\ at' = "for") => remaining' = remaining]_vars
    /\ [][(ScanDone /\ ~flag) => remaining' = remaining]_vars
    /\ [][Stock' = Stock /\ Order' = Order]_vars
    /\ [][self_remaining' # self_remaining =>
            /\ pc = "eval"
            /\ self_remaining' = Given(Stock.value)]_vars

\* a trial failed on the first candidate, the order was committed to the
\* second of two stocks after a split, and the other stock is as handed over
CommittedAfterFailureAndSplit ==
    /\ at = "after"
    /\ flag
    /\ scan = 2
    /\ Len(remaining) = 2
    /\ \A n \in 1..Len(initialOrders) : initialOrders[n] # currentOrder
    /\ remaining[stockIdx].cut # {}
    /\ \A j \in 1..Len(remaining) : j # stockIdx => remaining[j].cut = {}

\* optimize stored a placement and the Stock is the one handed over
PlacementStored ==
    /\ pc = "stopped"
    /\ self_remaining.given
    /\ Stock.given
    /\ Order

\* C20: ObjectiveFcn returns a non-negative cost for every candidate vector
\* within the bounds, for every stock and order, also for a stock that lies
\* at negative coordinates.
CostNonNegative == result.given => result.value >= 0

\* C21: a call of ObjectiveFcn in which the stock minus the placed parts has
\* no area raises nothing and returns a cost.
ZeroRemainderReturnsCost ==
    RemainingArea(call.particle, call.Stock, call.Order) = 0 => raised = "none"

\* C30: while the stocks are scanned for an order, every candidate stock has
\* a remaining area strictly above the sum of the areas of the order's parts,
\* so what a trial leaves of the stock has a positive area, and a trial runs
\* on such a stock only.
CandidateExceedsOrder ==
    /\ [](at = "for" =>
            \A n \in 1..Len(shapeIdx) :
               remaining[shapeIdx[n]].area - OrderArea(currentOrder) > 0)
    /\ [][(at = "for" /\ scan <= Len(shapeIdx)) =>
            /\ stockIdx' = shapeIdx[scan]
            /\ remaining[stockIdx'].area > OrderArea(currentOrder)]_vars

\* a trial ran on a stock that exceeds the order by one unit of area, while a
\* stock of exactly the order's area was left out of the scan
TrialOnTightStock ==
    /\ at = "for"
    /\ scan = 2
    /\ currentOrder # <<>>
    /\ remaining[stockIdx].area = OrderArea(currentOrder) + 1
    /\ \E j \in 1..Len(remaining) : remaining[j].area = OrderArea(currentOrder)

\* the circular range [c - k, c + k] mod D
CircularRange(c) == {(c + d) % D : d \in (0 - k)..k}

\* C22: for every candidate whose mutation is about to run, the set of the
\* entries of the neighbors array is the circular range of radius k around
\* the candidate; a negative index n is wrapped to n + D.
NeighborsAreCircularRange ==
    pc = "mutate" =>
       {Neighbors(i)[j] : j \in 0..(2 * k)} = CircularRange(i)

\* C23: in the global mutation of candidate i the best vector is the position
\* of the member, among the population indices sampled, whose personal-best
\* fitness is the lowest.
GlobalBestOfSample ==
    pc = "mutate" =>
       LET idx == NotItself(ChoiceGlobal(stream, i), i)
           bInd == GlobalBInd(i, ChoiceGlobal(stream, i))
       IN  \E m \in {idx[t] : t \in 1..3} :
              /\ \A n \in {idx[t] : t \in 1..3} :
                    PreviousBestFitness[m] <= PreviousBestFitness[n]
              /\ z[bInd] = z[m]

\* C24: at every crossover the draw of a variable can fail, so that the trial
\* of candidate i can keep a component of z[i] instead of the component of y.
CrossoverCanRetain ==
    pc = "cross" => ENABLED (Crossover /\ fromY' # 0..(nVars - 1))

\* every crossover takes every component of the trial from y
CrossoverAlwaysFromY ==
    [][pc = "cross" => fromY' = 0..(nVars - 1)]_vars

\* the indices taken are pairwise different and none is the candidate
PickedDistinct ==
    /\ picked.p # picked.q
    /\ picked.p # i
    /\ picked.q # i
    /\ picked.r1 # picked.r2
    /\ picked.r1 # i
    /\ picked.r2 # i

SelectionStrict ==
    /\ [][pc = "eval" =>
            \A c \in 0..(D - 1) :
               IF CurrentGenFitness'[c] < PreviousBestFitness[c]
               THEN /\ PreviousBestPosition'[c] = u[c]
                    /\ PreviousBestFitness'[c] = CurrentGenFitness'[c]
                    /\ z'[c] = u[c]
               ELSE /\ PreviousBestPosition'[c] = PreviousBestPosition[c]
                    /\ PreviousBestFitness'[c] = PreviousBestFitness[c]
                    /\ z'[c] = z[c]]_vars
    /\ [][pc = "eval" => CurrentGenFitness' = Evaluate(u)]_vars
    /\ [][\A c \in 0..(D - 1) :
            PreviousBestFitness'[c] <= PreviousBestFitness[c]]_vars

\* a generation replaced one candidate and kept another one whose trial, at
\* a different position, was exactly as good as its personal best
ReplacedAndKeptOnTie ==
    /\ AfterGeneration
    /\ \E c \in 0..(D - 1) : PreviousBestFitness[c] < initialFitness[c]
    /\ \E c \in 0..(D - 1) :
         /\ CurrentGenFitness[c] = PreviousBestFitness[c]
         /\ u[c] # z[c]

\* C29: after the initialization and after every generation the current
\* position of every candidate is its personal-best position, and the global
\* best position is the personal-best position of a candidate whose
\* personal-best fitness is the global best fitness.
CurrentIsPersonalBest ==
    /\ z = PreviousBestPosition
    /\ \E c \in 0..(D - 1) :
         /\ PreviousBestFitness[c] = GlobalBestFitness
         /\ PreviousBestPosition[c] = GlobalBestPosition

\* a generation moved the global best to a candidate other than the first,
\* replaced some candidates and kept others
GlobalBestMoved ==
    /\ AfterGeneration
    /\ GlobalBestFitness < InitialBest
    /\ PreviousBestPosition[0] # GlobalBestPosition
    /\ \E c \in 0..(D - 1) : PreviousBestFitness[c] = initialFitness[c]
    /\ \E c \in 0..(D - 1) : z[c] # u[c]

\* the parts are listed by perm with the largest area first
Descending(parts, n, perm) ==
    \A t \in 0..(n - 2) :
       PartAreaOf(parts[perm[t]]) >= PartAreaOf(parts[perm[t + 1]])

\* C27: the attraction-distance term is the sum of the distances between
\* consecutive parts of the transformed parts sorted by area, largest first.
DistanceOverDescendingAreas ==
    result.given =>
       LET parts == call.newOrder
           n == Cardinality(DOMAIN parts)
       IN  \E perm \in Perms(n) :
              /\ Descending(parts, n, perm)
              /\ result.value =
                    ConsecutiveDistances([t \in 0..(n - 1) |-> parts[perm[t]]], n, 0)

\* in run_pattern_search the term is that sum
PatternSearchDistanceOverDescendingAreas ==
    call.fcn = "run_pattern_search" => DistanceOverDescendingAreas

\* the cells of the orders committed before the n-th
Earlier(n) == UNION {UnionOf(resList[m]) : m \in 1..(n - 1)}

\* C28: whatever was committed to a stock, the parts of every order overlap
\* the parts of each earlier order by at most the tolerance and lie outside
\* the stock as handed over by at most the tolerance.
CommittedApart ==
    \A n \in 1..Len(resList) :
       /\ \A m \in 1..(n - 1) :
             Cardinality(UnionOf(resList[n]) \cap UnionOf(resList[m])) <= tolerance
       /\ Cardinality(UnionOf(resList[n]) \ SheetCells) <= tolerance
       /\ Cardinality(UnionOf(resList[n]) \cap Earlier(n))
             + Cardinality(UnionOf(resList[n]) \ (SheetCells \cup Earlier(n)))
             <= tolerance

\* a second order of two parts was committed on the sheet, lying on the
\* first order by exactly the tolerance
SecondOrderAtTolerance ==
    /\ Len(resList) = 2
    /\ flag
    /\ Len(resList[2]) = 2
    /\ Cardinality(UnionOf(resList[2]) \cap UnionOf(resList[1])) = tolerance
    /\ UnionOf(resList[2]) \subseteq SheetCells

====
